---------------------------- MODULE Spec2Model ----------------------------
(***************************************************************************)
(* A model of setup.py, the packaging script of Restless Quantum Volume.   *)
(*                                                                         *)
(* The script is straight-line module-level code: it reads three text      *)
(* files one after the other, each inside a `with open(...)` block, and    *)
(* then calls setuptools.setup() once.  The state is the file system the   *)
(* process sees (file contents and package directories), the process's     *)
(* working directory and the spelling of the script path (__file__), the   *)
(* module globals the script assigns, the set of open file handles, the    *)
(* exception in flight and the arguments of the setup() calls made.        *)
(*                                                                         *)
(* Text is a sequence of one-character strings, as f.read() returns it in  *)
(* text mode (after decoding and newline translation).  A path is a record *)
(* [abs, parts]: whether it starts at the root, and its components.        *)
(***************************************************************************)
EXTENDS Integers, Sequences, FiniteSets, TLC

(***************************************************************************)
(* Bounds of the model.                                                    *)
(***************************************************************************)
MaxReqLen == 2    \* longest requirements.txt, in characters
MaxVerLen == 2    \* longest VERSION.txt, in characters
MaxPkgs   == 2    \* most package directories in a scanned tree
MaxRuns   == 2    \* invocations of the script against the same directory

(***************************************************************************)
(* Characters and text.                                                    *)
(***************************************************************************)
NL == "\n"
SP == " "

ReqChars == {"a", NL}
VerChars == {"1", SP, NL}

\* the characters str.rstrip() with no argument removes (those of the alphabet)
Whitespace == {SP, NL, "\t"}

\* the line boundaries str.splitlines() splits at (those of the alphabet)
LineBreaks == {NL}

TextsUpTo(chars, n) == UNION {[1..k -> chars] : k \in 0..n}

(***************************************************************************)
(* str.splitlines(): the text is cut after every line boundary; the        *)
(* boundaries are dropped; a last piece is a line only if it is not empty. *)
(* Empty pieces between two boundaries ARE lines.                          *)
(***************************************************************************)
RECURSIVE splitlinesFrom(_, _, _)
splitlinesFrom(s, i, cur) ==
    IF i > Len(s)
    THEN IF cur = <<>> THEN <<>> ELSE <<cur>>
    ELSE IF s[i] \in LineBreaks
         THEN <<cur>> \o splitlinesFrom(s, i + 1, <<>>)
         ELSE splitlinesFrom(s, i + 1, Append(cur, s[i]))

\* a plausible slip: s.split("\n"), which yields [""] for the empty text
splitlines_asSplit(s) ==
    IF s = <<>> THEN << <<>> >> ELSE splitlinesFrom(s, 1, <<>>)

splitlines(s) == splitlinesFrom(s, 1, <<>>)

(***************************************************************************)
(* str.rstrip(): drop characters from the right end while they are         *)
(* whitespace.                                                             *)
(***************************************************************************)
\* a plausible slip: removing one trailing newline only (s[:-1] if it ends in "\n")
rstrip_oneNewline(s) ==
    IF Len(s) > 0 /\ s[Len(s)] = NL THEN SubSeq(s, 1, Len(s) - 1) ELSE s

RECURSIVE rstrip(_)
rstrip(s) ==
    IF Len(s) > 0 /\ s[Len(s)] \in Whitespace
    THEN rstrip(SubSeq(s, 1, Len(s) - 1))
    ELSE s

(***************************************************************************)
(* Paths (os.path).                                                        *)
(***************************************************************************)
Rel(parts) == [abs |-> FALSE, parts |-> parts]
Abs(parts) == [abs |-> TRUE, parts |-> parts]

\* os.path.join(a, b): an absolute b replaces a
join(a, b) == IF b.abs THEN b ELSE [abs |-> a.abs, parts |-> a.parts \o b.parts]

\* os.path.dirname(p): everything before the last component ('' for a bare name)
dirname(p) ==
    [abs |-> p.abs,
     parts |-> IF p.parts = <<>> THEN <<>> ELSE SubSeq(p.parts, 1, Len(p.parts) - 1)]

\* os.path.normpath on the components: ".." removes the component before it
normpath(parts) ==
    LET up(acc) == IF acc = <<>> THEN <<>> ELSE SubSeq(acc, 1, Len(acc) - 1)
        walk[i \in 0..Len(parts)] ==
            IF i = 0 THEN <<>>
            ELSE IF parts[i] = ".." THEN up(walk[i - 1])
                 ELSE Append(walk[i - 1], parts[i])
    IN walk[Len(parts)]

(***************************************************************************)
(* The directories and files of the model.                                 *)
(***************************************************************************)
ProjDir  == <<"proj">>     \* the directory that holds setup.py
OtherDir == <<"other">>    \* some other directory a build can be started from
Dirs == {ProjDir, OtherDir}

ReqFile(d)    == d \o <<"requirements.txt">>
VerFile(d)    == d \o <<"restless_quantum_volume", "VERSION.txt">>
ReadmeFile(d) == d \o <<"README.md">>
FilesOf(d) == {ReqFile(d), VerFile(d), ReadmeFile(d)}
AllFiles == UNION {FilesOf(d) : d \in Dirs}

Missing == [exists |-> FALSE, data |-> <<>>]
File(text) == [exists |-> TRUE, data |-> text]


\* the other directory holds files of the same names, with other contents
DecoyReq    == <<"b">>
DecoyVer    == <<"9">>
DecoyReadme == <<"?">>

ReadmeTexts == {<<"#", NL>>}

(***************************************************************************)
(* Package directories.  A directory name is text; a package directory is  *)
(* the sequence of directory names from the scanned root down to it; a     *)
(* tree is the set of directories that hold an __init__.py.                *)
(***************************************************************************)
n_rqv    == <<"r", "q", "v">>
n_tests  == <<"t", "e", "s", "t", "s">>
n_sub    == <<"s", "u", "b">>
n_latest == <<"l", "a", "t", "e", "s", "t">>

PkgPaths ==
    { <<n_rqv>>, <<n_tests>>, <<n_latest>>,
      <<n_rqv, n_tests>>, <<n_rqv, n_sub>>, <<n_tests, n_sub>> }

TreesUpTo(n) == {t \in SUBSET PkgPaths : Cardinality(t) <= n}

\* the dotted package name of a package directory: "a.b.c"
RECURSIVE dotted(_)
dotted(path) ==
    IF Len(path) = 1 THEN path[1]
    ELSE path[1] \o <<".">> \o dotted(Tail(path))

\* fnmatchcase(name, prefix + "*"): the name starts with the prefix
fnmatch_star(name, prefix) ==
    /\ Len(name) >= Len(prefix)
    /\ SubSeq(name, 1, Len(prefix)) = prefix

\* the exclude list of the call: ['test*']
exclude == {<<"t", "e", "s", "t">>}

\* setuptools looks into a directory only if it and every directory above
\* it, up to the scanned root, is a package (holds an __init__.py)
looks_like_package(tree, path) ==
    \A k \in 1..Len(path) : SubSeq(path, 1, k) \in tree

\* find_packages(exclude=['test*']) with where='.': the dotted names of the
\* packages under the scanned directory that no exclude pattern matches
find_packages(tree) ==
    { dotted(path) : path \in
        { q \in tree :
            /\ looks_like_package(tree, q)
            /\ ~ \E pat \in exclude : fnmatch_star(dotted(q), pat) } }

(***************************************************************************)
(* State.                                                                  *)
(***************************************************************************)
VARIABLES
    fs,            \* file path -> Missing or File(text)
    pkgs,          \* directory -> its tree of package directories
    cwd,           \* the working directory the process was started in
    file,          \* __file__: the script path as the process was given it
    pc,            \* the statement the process is at
    version_path,  \* module global (the empty relative path until assigned)
    README_PATH,   \* module global (the empty relative path until assigned)
    opened,        \* the files that are open
    opens,         \* the files this run called open() on, in order
    REQUIREMENTS,  \* module global (<<>> until assigned)
    version,       \* module global (<<>> until assigned)
    README,        \* module global (<<>> until assigned)
    exc,           \* the exception in flight, or the one that ended the run
    setup_calls,   \* the arguments of the setup() calls of this run
    run,           \* which invocation this is
    prev           \* the setup() calls of the previous invocation

vars == <<fs, pkgs, cwd, file, pc, version_path, README_PATH, opened, opens, REQUIREMENTS, version,
          README, exc, setup_calls, run, prev>>

NoExc == [type |-> "none", path |-> <<>>]
FileNotFoundError(p) == [type |-> "FileNotFoundError", path |-> p]
OSError(p) == [type |-> "OSError", path |-> p]

\* os.path.abspath(p): a relative path is taken from the working directory
abspath(p) ==
    Abs(normpath(IF p.abs THEN p.parts ELSE cwd \o p.parts))

\* the file the operating system opens for a path
Resolve(p) == abspath(p).parts

Lookup(path) == IF path \in DOMAIN fs THEN fs[path] ELSE Missing

\* line 18: the literal 'requirements.txt'
requirements_path == Rel(<<"requirements.txt">>)

\* lines 22-25: the value given to version_path
version_path_value ==
    abspath(join(join(dirname(file), Rel(<<"restless_quantum_volume">>)),
                 Rel(<<"VERSION.txt">>)))

\* lines 30-31: the value given to README_PATH
README_PATH_value == join(abspath(dirname(file)), Rel(<<"README.md">>))

\* the ways the script can be named when it is started from directory d
Spellings(d) ==
    { Abs(ProjDir \o <<"setup.py">>),
      Rel((IF d = ProjDir THEN <<>> ELSE <<"..", "proj">>) \o <<"setup.py">>) }

(***************************************************************************)
(* Initial states: a directory layout and a fresh process.                 *)
(***************************************************************************)
FreshProcess ==
    /\ pc = "open_requirements"
    /\ version_path = Rel(<<>>)
    /\ README_PATH = Rel(<<>>)
    /\ opened = {}
    /\ opens = <<>>
    /\ REQUIREMENTS = <<>>
    /\ version = <<>>
    /\ README = <<>>
    /\ exc = NoExc
    /\ setup_calls = <<>>

InitWith(reqs, vers, readmes, trees) ==
    /\ \E r \in reqs \cup {Missing}, v \in vers \cup {Missing},
          m \in readmes \cup {Missing} :
          fs = [p \in AllFiles |->
                  IF p = ReqFile(ProjDir) THEN r
                  ELSE IF p = VerFile(ProjDir) THEN v
                  ELSE IF p = ReadmeFile(ProjDir) THEN m
                  ELSE IF p = ReqFile(OtherDir) THEN File(DecoyReq)
                  ELSE IF p = VerFile(OtherDir) THEN File(DecoyVer)
                  ELSE File(DecoyReadme)]
    /\ \E t \in trees : pkgs = [d \in Dirs |-> IF d = ProjDir THEN t ELSE {}]
    /\ cwd \in Dirs
    /\ file \in Spellings(cwd)
    /\ run = 1
    /\ prev = <<>>
    /\ FreshProcess

Init ==
    InitWith({File(t) : t \in TextsUpTo(ReqChars, MaxReqLen)},
             {File(t) : t \in TextsUpTo(VerChars, MaxVerLen)},
             {File(t) : t \in ReadmeTexts},
             {{<<n_rqv>>, <<n_tests>>}})

InitPkg ==
    InitWith({File(<<"a", NL>>)},
             {File(<<"1", NL>>)},
             {File(<<"#">>)},
             TreesUpTo(MaxPkgs))

(***************************************************************************)
(* The script, statement by statement.                                     *)
(***************************************************************************)
\* open(path): the file is opened, or FileNotFoundError ends the run (nothing
\* catches it)
open(at, path, next) ==
    /\ pc = at
    /\ opens' = Append(opens, Resolve(path))
    /\ IF Lookup(Resolve(path)).exists
       THEN /\ opened' = opened \cup {Resolve(path)}
            /\ pc' = next
            /\ exc' = exc
       ELSE /\ opened' = opened
            /\ pc' = "aborted"
            /\ exc' = FileNotFoundError(Resolve(path))

\* a slip: the error is swallowed (try/except: pass) and the script goes on
with_exit_swallow(at, path, next) ==
    /\ pc = at
    /\ opened' = opened \ {Resolve(path)}
    /\ pc' = next

\* a slip: f = open(...) with no `with`, so nothing closes the file
with_exit_noClose(at, path, next) ==
    /\ pc = at
    /\ opened' = opened
    /\ pc' = IF exc = NoExc THEN next ELSE "aborted"

\* leaving a `with` block closes its file, whether the block ended normally
\* or an exception is passing through it
with_exit(at, path, next) ==
    /\ pc = at
    /\ opened' = opened \ {Resolve(path)}
    /\ pc' = IF exc = NoExc THEN next ELSE "aborted"

\* line 18
OpenRequirements ==
    /\ open("open_requirements", requirements_path, "read_requirements")
    /\ UNCHANGED <<fs, pkgs, cwd, file, version_path, README_PATH, REQUIREMENTS, version, README,
                   setup_calls, run, prev>>

\* line 19
ReadRequirements ==
    /\ pc = "read_requirements"
    /\ REQUIREMENTS' = splitlines(Lookup(Resolve(requirements_path)).data)
    /\ pc' = "exit_requirements"
    /\ UNCHANGED <<fs, pkgs, cwd, file, version_path, README_PATH, opened, opens, version, README, exc,
                   setup_calls, run, prev>>

\* lines 18-19, the end of the with block
ExitRequirements ==
    /\ with_exit("exit_requirements", requirements_path, "version_path")
    /\ UNCHANGED <<fs, pkgs, cwd, file, version_path, README_PATH, opens, REQUIREMENTS, version, README,
                   exc, setup_calls, run, prev>>

\* lines 22-25
AssignVersionPath ==
    /\ pc = "version_path"
    /\ version_path' = version_path_value
    /\ pc' = "open_version"
    /\ UNCHANGED <<fs, pkgs, cwd, file, README_PATH, opened, opens,
                   REQUIREMENTS, version, README, exc, setup_calls, run, prev>>

\* a slip: a missing version file replaced by a default instead of failing
OpenVersion_default ==
    /\ pc = "open_version"
    /\ opens' = Append(opens, Resolve(version_path))
    /\ IF Lookup(Resolve(version_path)).exists
       THEN /\ opened' = opened \cup {Resolve(version_path)}
            /\ pc' = "read_version"
            /\ version' = version
       ELSE /\ opened' = opened
            /\ pc' = "README_PATH"
            /\ version' = <<"0">>
    /\ UNCHANGED <<fs, pkgs, cwd, file, version_path, README_PATH, REQUIREMENTS, README, exc,
                   setup_calls, run, prev>>

\* line 26
OpenVersion ==
    /\ open("open_version", version_path, "read_version")
    /\ UNCHANGED <<fs, pkgs, cwd, file, version_path, README_PATH, REQUIREMENTS, version, README,
                   setup_calls, run, prev>>

\* line 27
ReadVersion ==
    /\ pc = "read_version"
    /\ version' = rstrip(Lookup(Resolve(version_path)).data)
    /\ pc' = "exit_version"
    /\ UNCHANGED <<fs, pkgs, cwd, file, version_path, README_PATH, opened, opens, REQUIREMENTS, README,
                   exc, setup_calls, run, prev>>

\* lines 26-27, the end of the with block
ExitVersion ==
    /\ with_exit("exit_version", version_path, "README_PATH")
    /\ UNCHANGED <<fs, pkgs, cwd, file, version_path, README_PATH, opens, REQUIREMENTS, version, README,
                   exc, setup_calls, run, prev>>

\* lines 30-31
AssignReadmePath ==
    /\ pc = "README_PATH"
    /\ README_PATH' = README_PATH_value
    /\ pc' = "open_readme"
    /\ UNCHANGED <<fs, pkgs, cwd, file, version_path, opened, opens,
                   REQUIREMENTS, version, README, exc, setup_calls, run, prev>>

\* line 32
OpenReadme ==
    /\ open("open_readme", README_PATH, "read_readme")
    /\ UNCHANGED <<fs, pkgs, cwd, file, version_path, README_PATH, REQUIREMENTS, version, README,
                   setup_calls, run, prev>>

\* line 33
ReadReadme ==
    /\ pc = "read_readme"
    /\ README' = Lookup(Resolve(README_PATH)).data
    /\ pc' = "exit_readme"
    /\ UNCHANGED <<fs, pkgs, cwd, file, version_path, README_PATH, opened, opens, REQUIREMENTS, version,
                   exc, setup_calls, run, prev>>

\* lines 32-33, the end of the with block
ExitReadme ==
    /\ with_exit("exit_readme", README_PATH, "setup")
    /\ UNCHANGED <<fs, pkgs, cwd, file, version_path, README_PATH, opens, REQUIREMENTS, version, README,
                   exc, setup_calls, run, prev>>

\* lines 19, 27, 33: read() itself can fail on an open file (an I/O or a
\* decoding error); the exception leaves through the with block
ReadError ==
    /\ \/ /\ pc = "read_requirements"
          /\ pc' = "exit_requirements"
          /\ exc' = OSError(Resolve(requirements_path))
       \/ /\ pc = "read_version"
          /\ pc' = "exit_version"
          /\ exc' = OSError(Resolve(version_path))
       \/ /\ pc = "read_readme"
          /\ pc' = "exit_readme"
          /\ exc' = OSError(Resolve(README_PATH))
    /\ UNCHANGED <<fs, pkgs, cwd, file, version_path, README_PATH, opened, opens, REQUIREMENTS, version,
                   README, setup_calls, run, prev>>

\* a slip: a build counter stamped into the version
Descriptor_stamped ==
    [ name |-> "Restless Quantum Volume",
      version |-> version \o <<"+", ToString(run)>>,
      long_description |-> README,
      long_description_content_type |-> "text/markdown",
      packages |-> find_packages(pkgs[cwd]),
      install_requires |-> REQUIREMENTS,
      include_package_data |-> TRUE,
      python_requires |-> ">=3.7",
      zip_safe |-> FALSE ]

\* lines 35-66: the keyword arguments of the call (those that are not
\* literals, and the literals a build depends on)
Descriptor ==
    [ name |-> "Restless Quantum Volume",
      version |-> version,
      long_description |-> README,
      long_description_content_type |-> "text/markdown",
      packages |-> find_packages(pkgs[cwd]),
      install_requires |-> REQUIREMENTS,
      include_package_data |-> TRUE,
      python_requires |-> ">=3.7",
      zip_safe |-> FALSE ]

\* lines 35-66
SetupCall ==
    /\ pc = "setup"
    /\ setup_calls' = Append(setup_calls, Descriptor)
    /\ pc' = "done"
    /\ UNCHANGED <<fs, pkgs, cwd, file, version_path, README_PATH, opened, opens, REQUIREMENTS, version,
                   README, exc, run, prev>>

\* the same command is run again, as a new process, from the same working
\* directory and against the same files
Rerun ==
    /\ pc \in {"done", "aborted"}
    /\ run < MaxRuns
    /\ run' = run + 1
    /\ prev' = setup_calls
    /\ pc' = "open_requirements"
    /\ version_path' = Rel(<<>>)
    /\ README_PATH' = Rel(<<>>)
    /\ opened' = {}
    /\ opens' = <<>>
    /\ REQUIREMENTS' = <<>>
    /\ version' = <<>>
    /\ README' = <<>>
    /\ exc' = NoExc
    /\ setup_calls' = <<>>
    /\ UNCHANGED <<fs, pkgs, cwd, file>>

Next ==
    \/ OpenRequirements
    \/ ReadRequirements
    \/ ExitRequirements
    \/ AssignVersionPath
    \/ OpenVersion
    \/ ReadVersion
    \/ ExitVersion
    \/ AssignReadmePath
    \/ OpenReadme
    \/ ReadReadme
    \/ ExitReadme
    \/ ReadError
    \/ SetupCall
    \/ Rerun

Spec == Init /\ [][Next]_vars

SpecPkg == InitPkg /\ [][Next]_vars

(***************************************************************************)
(* Properties.                                                             *)
(***************************************************************************)
Calls == {setup_calls[i] : i \in 1..Len(setup_calls)}

Terminal == pc \in {"done", "aborted"}

\* the files the script's three path expressions name, in statement order
ReadOrder == <<ReqFile(cwd), VerFile(ProjDir), ReadmeFile(ProjDir)>>

\* the text of the requirements file this run opened
ReqText == Lookup(Resolve(requirements_path)).data

\* the pieces of a text between its line boundaries that are not empty, in order
RECURSIVE NonEmptyLines(_)
NonEmptyLines(text) ==
    IF text = <<>> THEN <<>>
    ELSE LET brk == {i \in 1..Len(text) : text[i] \in LineBreaks}
             cut == IF brk = {} THEN Len(text) + 1
                    ELSE CHOOSE i \in brk : \A j \in brk : i <= j
             first == SubSeq(text, 1, cut - 1)
             rest == SubSeq(text, cut + 1, Len(text))
         IN (IF first = <<>> THEN <<>> ELSE <<first>>) \o NonEmptyLines(rest)

\* v is text c with its trailing whitespace removed and nothing else changed
IsRightTrimOf(v, c) ==
    /\ Len(v) <= Len(c)
    /\ v = SubSeq(c, 1, Len(v))
    /\ \A i \in (Len(v) + 1)..Len(c) : c[i] \in Whitespace
    /\ v = <<>> \/ v[Len(v)] \notin Whitespace

\* C1: for every requirements-file content, the install_requires of the
\* setup() call is the sequence of the non-empty lines of the file, in file
\* order; blank lines never appear as entries.
C1_InstallRequiresAreNonEmptyLines ==
    \A d \in Calls : d.install_requires = NonEmptyLines(ReqText)

\* C2: whatever the working directory, the files the script opens are the
\* three files under the directory that holds setup.py.
C2_FilesResolvedAgainstScriptDir ==
    \A i \in 1..Len(opens) : opens[i] \in FilesOf(ProjDir)

\* C3: the version of the setup() call is the whole content of the
\* project's VERSION.txt with trailing whitespace removed and nothing else
\* changed; content "1\n" yields exactly "1".
C3_VersionIsRightTrimmedContent ==
    \A d \in Calls :
        /\ IsRightTrimOf(d.version, fs[VerFile(ProjDir)].data)
        /\ fs[VerFile(ProjDir)].data = <<"1", NL>> => d.version = <<"1">>

C3_Witness ==
    /\ pc = "done"
    /\ fs[VerFile(ProjDir)].data = <<"1", NL>>
    /\ setup_calls = <<Descriptor>>
    /\ setup_calls[1].version = <<"1">>

\* C4: in every descriptor that reaches setup(), the version is non-empty
\* and has no trailing whitespace, whatever VERSION.txt holds.
C4_VersionNonEmptyAndTrimmed ==
    \A d \in Calls :
        /\ d.version # <<>>
        /\ d.version[Len(d.version)] \notin Whitespace

\* C5: if one of the three files the script reads is missing or cannot be
\* read, the run aborts with that error and setup() is never called; no file
\* is tried twice and no default takes the place of a value. A missing
\* version file aborts with FileNotFoundError before any setup() call.
C5_MissingFileAborts ==
    /\ setup_calls # <<>> =>
          /\ exc = NoExc
          /\ \A i \in 1..3 : Lookup(ReadOrder[i]).exists
    /\ pc = "aborted" =>
          /\ setup_calls = <<>>
          /\ exc # NoExc
          /\ exc.type = "FileNotFoundError" => ~Lookup(exc.path).exists
    /\ (Terminal /\ \E i \in 1..3 : ~Lookup(ReadOrder[i]).exists) => pc = "aborted"
    /\ (Terminal /\ ~Lookup(ReadOrder[2]).exists /\ Len(opens) >= 2) =>
          /\ exc = FileNotFoundError(ReadOrder[2])
          /\ setup_calls = <<>>
          /\ version = <<>>
    /\ \A i, j \in 1..Len(opens) : opens[i] = opens[j] => i = j

C5_Witness ==
    /\ pc = "aborted"
    /\ ~Lookup(ReadOrder[2]).exists
    /\ exc = FileNotFoundError(ReadOrder[2])
    /\ REQUIREMENTS # <<>>
    /\ setup_calls = <<>>

\* does a directory name begin with "test"?
BeginsWithTest(n) == Len(n) >= 4 /\ SubSeq(n, 1, 4) = <<"t", "e", "s", "t">>

\* the packages the scan can reach in the working directory's tree
Discovered == {q \in pkgs[cwd] : \A k \in 1..Len(q) : SubSeq(q, 1, k) \in pkgs[cwd]}

\* C6: packages never holds a package one of whose directory names begins
\* with "test", at any depth (a top-level tests/ and a nested <pkg>/tests/
\* alike), and holds every discovered package that has no such directory.
C6_NoTestPackagesAtAnyDepth ==
    \A d \in Calls :
        d.packages =
            { dotted(q) : q \in
                {r \in Discovered : \A k \in 1..Len(r) : ~BeginsWithTest(r[k])} }

C8_EmptyRequirements ==
    (Lookup(Resolve(requirements_path)).exists /\ ReqText = <<>>) =>
        /\ pc \notin {"open_requirements", "read_requirements"} => REQUIREMENTS = <<>>
        /\ (pc = "exit_requirements" /\ exc = NoExc) => ENABLED ExitRequirements
        /\ (pc = "aborted" /\ Len(opens) = 1) => exc = OSError(opens[1])
        /\ pc = "done" => Len(setup_calls) = 1
        /\ \A d \in Calls :
              /\ d.install_requires = <<>>
              /\ IsRightTrimOf(d.version, fs[VerFile(ProjDir)].data)
              /\ d.long_description = fs[ReadmeFile(ProjDir)].data

C8_Witness ==
    /\ pc = "done"
    /\ Lookup(Resolve(requirements_path)).exists
    /\ ReqText = <<>>
    /\ Len(setup_calls) = 1
    /\ setup_calls[1].install_requires = <<>>
    /\ setup_calls[1].long_description = <<"#", NL>>

\* C9: a run calls setup() at most once, and only after requirements.txt,
\* VERSION.txt and README.md were read without error, in that order; after
\* a failure on one file no later file is opened; a run that has not ended
\* can always take its next step, and it ends either having made the one
\* setup() call or aborted on the first error.
C9_OneCallAfterOrderedReads ==
    /\ Len(setup_calls) <= 1
    /\ Len(opens) <= 3
    /\ \A i \in 1..Len(opens) : opens[i] = ReadOrder[i]
    /\ setup_calls # <<>> =>
          /\ opens = ReadOrder
          /\ exc = NoExc
          /\ pc = "done"
    /\ exc # NoExc =>
          /\ opens # <<>>
          /\ exc.path = opens[Len(opens)]
          /\ pc \in {"exit_requirements", "exit_version", "exit_readme", "aborted"}
          /\ setup_calls = <<>>
    /\ pc = "done" => Len(setup_calls) = 1
    /\ pc = "aborted" => exc # NoExc
    /\ ~Terminal => ENABLED Next
    /\ pc \in {"open_requirements", "read_requirements", "exit_requirements",
              "version_path", "open_version", "read_version", "exit_version",
              "README_PATH", "open_readme", "read_readme", "exit_readme",
              "setup", "done", "aborted"}

C9_Witness ==
    /\ pc = "done"
    /\ Len(setup_calls) = 1
    /\ opens = ReadOrder
    /\ exc = NoExc

\* C10: at most one file is open at any point of a run, no file is open
\* when the next one is about to be opened, and none is open at the setup()
\* call or when the run has aborted, also when read() failed on an open file.
C10_FileHandlesScoped ==
    /\ Cardinality(opened) <= 1
    /\ pc \in {"open_requirements", "version_path", "open_version",
              "README_PATH", "open_readme"} => opened = {}
    /\ pc \in {"setup", "done", "aborted"} => opened = {}
    /\ pc \in {"read_requirements", "read_version", "read_readme"} =>
          opened = {opens[Len(opens)]}

C10_Witness ==
    /\ pc = "aborted"
    /\ exc.type = "OSError"
    /\ opened = {}

=============================================================================
